---------------------------- MODULE Spec2Model ----------------------------
(***************************************************************************)
(* Model of compute_beds_and_trucks (src/grc_transport_app.py, 167-213):   *)
(* a two-stage greedy first-fit packer.  Panels are packed onto beds, the  *)
(* beds are summarised, and the bed summaries are packed onto trucks.      *)
(*                                                                         *)
(* One step of the model is one iteration of one of the three outer `for`  *)
(* loops of the function (the inner scan over the open beds / trucks is    *)
(* computed by a recursive operator, as the code computes it, left to      *)
(* right with `break` on the first hit), or the exit of such a loop.       *)
(*                                                                         *)
(* Lengths are millimetres and weights kilograms, as in the source.  A     *)
(* Python str is the sequence of its Unicode code points, so that strip()  *)
(* and lower() are computed and not assumed.                               *)
(***************************************************************************)
EXTENDS Integers, Sequences, FiniteSets

VARIABLES
    panels,         \* the `panels` argument: a sequence of panel dicts
    pc,             \* position in the function body
    i,              \* 1-based index of the next panel of `for panel in panels`
    beds,           \* `beds`: sequence of beds, each a sequence of panels
    j,              \* 1-based index of the next bed of `for bed in beds`
    bed_summaries,  \* `bed_summaries`: sequence of summary dicts
    t,              \* 1-based index of the next summary of `for bed in bed_summaries`
    trucks          \* `trucks`: sequence of trucks, each a sequence of summaries

vars == <<panels, pc, i, beds, j, bed_summaries, t, trucks>>

----------------------------------------------------------------------------
(* Default arguments of compute_beds_and_trucks; both call sites use them.  *)

bed_width == 2400

bed_weight_limit == 2500

truck_weight_limit == 15000

truck_max_length == 13620

----------------------------------------------------------------------------
(* Bounds of the model and the values the inputs are drawn from.            *)

\* Longest input sequence explored by Spec and SpecTypes.
MaxPanels == 3

\* Depth of a panel: two that can share a bed only with the smaller one
\* (1100 + 1300 = 2400, 1300 + 1300 > 2400) and one wider than a bed.
DepthChoices == {1100, 1300, 2500}

\* Weight of a panel: unknown (0), one that fits twice in no bed
\* (1300 + 1300 > 2500) and one heavier than a bed and than a truck.
WeightChoices == {0, 1300, 16000}

\* Width and Height of a panel: two 8000 wide beds share no truck
\* (16000 > 13620), and a 5000 wide bed fits beside either of them
\* (13000 <= 13620).
FaceChoices == { [Width |-> 5000, Height |-> 3000],
                 [Width |-> 8000, Height |-> 2000] }

----------------------------------------------------------------------------
(* Python values.                                                           *)

\* A value of p['Type']: a str (its characters) or something that is no str
\* (None, a float NaN), for which isinstance(p['Type'], str) is False.
Str(chars) == [isStr |-> TRUE, chars |-> chars]

NotAStr == [isStr |-> FALSE, chars |-> << >>]

\* The characters str.strip() removes: the code points c for which
\* chr(c).isspace() holds (\t \n \v \f \r, FS GS RS US, space, NEL, NBSP,
\* U+1680, U+2000..U+200A, U+2028, U+2029, U+202F, U+205F, U+3000).
Whitespace ==
    (9..13) \cup (28..32) \cup {133, 160, 5760} \cup (8192..8202)
        \cup {8232, 8233, 8239, 8287, 12288}

\* The characters of the model: ASCII and the whitespace characters.  On
\* these str.lower() works character by character.
Chars == (0..127) \cup Whitespace

\* str.lower() on one character of Chars: 'A'..'Z' become 'a'..'z'.
LowerChar == [c \in Chars |-> IF c \in 65..90 THEN c + 32 ELSE c]

\* str.lower()
Lower(s) == [n \in 1..Len(s) |-> LowerChar[s[n]]]

\* The str values "nan" and "none" of line 189.
NanStr == <<110, 97, 110>>

NoneStr == <<110, 111, 110, 101>>

RECURSIVE LStrip(_)
LStrip(s) ==
    IF s # << >> /\ Head(s) \in Whitespace THEN LStrip(Tail(s)) ELSE s

RECURSIVE RStrip(_)
RStrip(s) ==
    IF s # << >> /\ s[Len(s)] \in Whitespace
    THEN RStrip(SubSeq(s, 1, Len(s) - 1))
    ELSE s

\* str.strip()
Strip(s) == RStrip(LStrip(s))

\* sum(...) of Python: left to right, starting from 0.
RECURSIVE Sum(_)
Sum(s) ==
    IF s = << >> THEN 0 ELSE Sum(SubSeq(s, 1, Len(s) - 1)) + s[Len(s)]

\* max(...) of Python over a non-empty sequence.
RECURSIVE Max(_)
Max(s) ==
    IF Len(s) = 1 THEN s[1]
    ELSE LET m == Max(SubSeq(s, 1, Len(s) - 1))
         IN  IF s[Len(s)] > m THEN s[Len(s)] ELSE m

\* [p[field] for p in s]
Field(s, field) == [n \in 1..Len(s) |-> s[n][field]]

----------------------------------------------------------------------------
(* Bed pass, lines 168-179.                                                 *)

\* Variants of BedAdmits with a plausible slip: a limit not tested, the
\* panel's own size left out, `<` for `<=`.
BedAdmits_NoWeightCheck(bed, panel) ==
    Sum(Field(bed, "Depth")) + panel.Depth <= bed_width

BedAdmits_NoDepthCheck(bed, panel) ==
    Sum(Field(bed, "Weight")) + panel.Weight <= bed_weight_limit

BedAdmits_IgnoresPanel(bed, panel) ==
    /\ Sum(Field(bed, "Depth")) <= bed_width
    /\ Sum(Field(bed, "Weight")) <= bed_weight_limit

BedAdmits_Strict(bed, panel) ==
    /\ Sum(Field(bed, "Depth")) + panel.Depth < bed_width
    /\ Sum(Field(bed, "Weight")) + panel.Weight < bed_weight_limit

\* The condition of line 174, with used_depth and total_weight of 172-173.
BedAdmits(bed, panel) ==
    LET used_depth   == Sum(Field(bed, "Depth"))
        total_weight == Sum(Field(bed, "Weight"))
    IN  /\ used_depth + panel.Depth <= bed_width
        /\ total_weight + panel.Weight <= bed_weight_limit

\* Variants of ScanBeds: the last admitting bed instead of the first, and
\* only the most recently opened bed tried.
RECURSIVE ScanBeds_LastFit(_, _, _)
ScanBeds_LastFit(bs, panel, b) ==
    IF b > Len(bs) THEN 0
    ELSE LET later == ScanBeds_LastFit(bs, panel, b + 1)
         IN  IF later # 0 THEN later
             ELSE IF BedAdmits(bs[b], panel) THEN b ELSE 0

ScanBeds_NextFit(bs, panel, b) ==
    IF bs # << >> /\ BedAdmits(bs[Len(bs)], panel) THEN Len(bs) ELSE 0

\* `for bed in beds` (171-177) from bed b on: the index of the bed the panel
\* is appended to before `break`, or 0 when the loop ends with placed = False.
RECURSIVE ScanBeds(_, _, _)
ScanBeds(bs, panel, b) ==
    IF b > Len(bs) THEN 0
    ELSE IF BedAdmits(bs[b], panel) THEN b
    ELSE ScanBeds(bs, panel, b + 1)

\* Variant of AppendTo: assignment instead of append.
AppendTo_Replaces(groups, g, item) == [groups EXCEPT ![g] = <<item>>]

\* bed.append(panel) (175) and truck.append(bed) (207) on the g-th group.
AppendTo(groups, g, item) == [groups EXCEPT ![g] = Append(@, item)]

\* 169-177 with placed = True: the panel joins the first bed that admits it.
PlaceInBed ==
    /\ pc = "pack_beds"
    /\ i <= Len(panels)
    /\ ScanBeds(beds, panels[i], 1) # 0
    /\ beds' = AppendTo(beds, ScanBeds(beds, panels[i], 1), panels[i])
    /\ i' = i + 1
    /\ UNCHANGED <<panels, pc, j, bed_summaries, t, trucks>>

\* 169-179 with placed = False: beds.append([panel]).
OpenBed ==
    /\ pc = "pack_beds"
    /\ i <= Len(panels)
    /\ ScanBeds(beds, panels[i], 1) = 0
    /\ beds' = Append(beds, <<panels[i]>>)
    /\ i' = i + 1
    /\ UNCHANGED <<panels, pc, j, bed_summaries, t, trucks>>

\* `for panel in panels` is exhausted; control reaches line 181.
BedsPacked ==
    /\ pc = "pack_beds"
    /\ i > Len(panels)
    /\ pc' = "summarize"
    /\ UNCHANGED <<panels, i, beds, j, bed_summaries, t, trucks>>

----------------------------------------------------------------------------
(* Summaries, lines 181-198.                                                *)

\* The filter of line 189 (pd.notna is True of every str).
KeepsType(tp) ==
    /\ tp.isStr
    /\ Lower(Strip(tp.chars)) \notin { << >>, NanStr, NoneStr }

\* Variant of PanelTypes: the filter compares without lower().
RECURSIVE PanelTypes_NoLower(_)
PanelTypes_NoLower(bed) ==
    IF bed = << >> THEN << >>
    ELSE LET rest == PanelTypes_NoLower(SubSeq(bed, 1, Len(bed) - 1))
             tp   == bed[Len(bed)].Type
         IN  IF /\ tp.isStr
                /\ Strip(tp.chars) \notin { << >>, NanStr, NoneStr }
             THEN Append(rest, Strip(tp.chars))
             ELSE rest

\* The list comprehension of lines 186-190.
RECURSIVE PanelTypes(_)
PanelTypes(bed) ==
    IF bed = << >> THEN << >>
    ELSE LET rest == PanelTypes(SubSeq(bed, 1, Len(bed) - 1))
             tp   == bed[Len(bed)].Type
         IN  IF KeepsType(tp) THEN Append(rest, Strip(tp.chars)) ELSE rest

\* Variant of BedSummary: Width and Height of the panels confused.
BedSummary_Swapped(bed) ==
    [ Length     |-> Max(Field(bed, "Height")),
      Height     |-> Max(Field(bed, "Width")),
      Width      |-> bed_width,
      Weight     |-> Sum(Field(bed, "Weight")),
      Num_Panels |-> Len(bed),
      Panel_Types |-> PanelTypes(bed) ]

\* The dict of lines 191-198 ('Num Panels' and 'Panel Types' are written
\* Num_Panels and Panel_Types).
BedSummary(bed) ==
    [ Length     |-> Max(Field(bed, "Width")),
      Height     |-> Max(Field(bed, "Height")),
      Width      |-> bed_width,
      Weight     |-> Sum(Field(bed, "Weight")),
      Num_Panels |-> Len(bed),
      Panel_Types |-> PanelTypes(bed) ]

\* One iteration of `for bed in beds` (182-198).
SummarizeBed ==
    /\ pc = "summarize"
    /\ j <= Len(beds)
    /\ bed_summaries' = Append(bed_summaries, BedSummary(beds[j]))
    /\ j' = j + 1
    /\ UNCHANGED <<panels, pc, i, beds, t, trucks>>

\* `for bed in beds` is exhausted; control reaches line 200.
BedsSummarized ==
    /\ pc = "summarize"
    /\ j > Len(beds)
    /\ pc' = "pack_trucks"
    /\ UNCHANGED <<panels, i, beds, j, bed_summaries, t, trucks>>

----------------------------------------------------------------------------
(* Truck pass, lines 200-211.                                               *)

\* Variant of TruckAdmits: the weight limit not tested.
TruckAdmits_NoWeightCheck(truck, bed) ==
    Sum(Field(truck, "Length")) + bed.Length <= truck_max_length

\* The condition of line 206, with used_length and total_weight of 204-205.
TruckAdmits(truck, bed) ==
    LET used_length  == Sum(Field(truck, "Length"))
        total_weight == Sum(Field(truck, "Weight"))
    IN  /\ used_length + bed.Length <= truck_max_length
        /\ total_weight + bed.Weight <= truck_weight_limit

\* Variant of ScanTrucks: the last admitting truck instead of the first.
RECURSIVE ScanTrucks_LastFit(_, _, _)
ScanTrucks_LastFit(ts, bed, k) ==
    IF k > Len(ts) THEN 0
    ELSE LET later == ScanTrucks_LastFit(ts, bed, k + 1)
         IN  IF later # 0 THEN later
             ELSE IF TruckAdmits(ts[k], bed) THEN k ELSE 0

\* `for truck in trucks` (203-209) from truck k on: the index of the truck
\* the bed is appended to, or 0 when the loop ends with placed = False.
RECURSIVE ScanTrucks(_, _, _)
ScanTrucks(ts, bed, k) ==
    IF k > Len(ts) THEN 0
    ELSE IF TruckAdmits(ts[k], bed) THEN k
    ELSE ScanTrucks(ts, bed, k + 1)

\* 201-209 with placed = True.
PlaceOnTruck ==
    /\ pc = "pack_trucks"
    /\ t <= Len(bed_summaries)
    /\ ScanTrucks(trucks, bed_summaries[t], 1) # 0
    /\ trucks' = AppendTo(trucks, ScanTrucks(trucks, bed_summaries[t], 1),
                          bed_summaries[t])
    /\ t' = t + 1
    /\ UNCHANGED <<panels, pc, i, beds, j, bed_summaries>>

\* 201-211 with placed = False: trucks.append([bed]).
OpenTruck ==
    /\ pc = "pack_trucks"
    /\ t <= Len(bed_summaries)
    /\ ScanTrucks(trucks, bed_summaries[t], 1) = 0
    /\ trucks' = Append(trucks, <<bed_summaries[t]>>)
    /\ t' = t + 1
    /\ UNCHANGED <<panels, pc, i, beds, j, bed_summaries>>

\* `for bed in bed_summaries` is exhausted: return bed_summaries, trucks (213).
Return ==
    /\ pc = "pack_trucks"
    /\ t > Len(bed_summaries)
    /\ pc' = "done"
    /\ UNCHANGED <<panels, i, beds, j, bed_summaries, t, trucks>>

----------------------------------------------------------------------------
(* Specifications.                                                          *)

\* All sequences over S of length 0..n.
SeqsUpTo(S, n) == UNION { [1..m -> S] : m \in 0..n }

\* State on entry of the function, line 168, for a given argument.
Entry(input) ==
    /\ panels = input
    /\ pc = "pack_beds"
    /\ i = 1
    /\ beds = << >>
    /\ j = 1
    /\ bed_summaries = << >>
    /\ t = 1
    /\ trucks = << >>

\* Panels as the parsers build them (lines 76-82, 154-160), all of Type "W1".
PanelChoices ==
    { [Type |-> Str(<<87, 49>>), Height |-> f.Height, Width |-> f.Width,
       Depth |-> d, Weight |-> w] :
      f \in FaceChoices, d \in DepthChoices, w \in WeightChoices }

Init == \E input \in SeqsUpTo(PanelChoices, MaxPanels) : Entry(input)

Next ==
    \/ PlaceInBed
    \/ OpenBed
    \/ BedsPacked
    \/ SummarizeBed
    \/ BedsSummarized
    \/ PlaceOnTruck
    \/ OpenTruck
    \/ Return

Spec == Init /\ [][Next]_vars

\* Panels whose Type varies: "W1", " W1\r", "NaN", "none\n" followed by
\* U+3000, the blank string "\xa0\f", and a value that is no str.
TypeChoices ==
    { Str(<<87, 49>>), Str(<<32, 87, 49, 13>>), Str(<<78, 97, 78>>),
      Str(<<110, 111, 110, 101, 10, 12288>>), Str(<<160, 12>>), NotAStr }

\* Three panels of Depth 800 share a bed; two of Depth 1300 do not.
TypedPanelChoices ==
    { [Type |-> tp, Height |-> 3000, Width |-> 6000, Depth |-> d, Weight |-> 0] :
      tp \in TypeChoices, d \in {800, 1300} }

InitTypes == \E input \in SeqsUpTo(TypedPanelChoices, MaxPanels) : Entry(input)

SpecTypes == InitTypes /\ [][Next]_vars

\* The orderings of two panels of Depth 1300 and two of Depth 1100 that are
\* otherwise alike.
OrderChoices ==
    { input \in [1..4 -> { pn \in PanelChoices : pn.Depth \in {1100, 1300} /\ pn.Weight = 0 }] :
        /\ Cardinality({ n \in 1..4 : input[n].Depth = 1300 }) = 2
        /\ \A n \in 1..4 : /\ input[n].Width = input[1].Width
                           /\ input[n].Height = input[1].Height }

InitOrder == \E input \in OrderChoices : Entry(input)

SpecOrder == InitOrder /\ [][Next]_vars

----------------------------------------------------------------------------
(* Vocabulary of the properties.                                            *)

\* Number of positions of seq that hold x.
Count(x, seq) == Cardinality({ n \in 1..Len(seq) : seq[n] = x })

\* The members of all groups, group after group.
RECURSIVE Flatten(_)
Flatten(groups) ==
    IF groups = << >> THEN << >> ELSE Head(groups) \o Flatten(Tail(groups))

\* Total of a field over the members of a group.
RECURSIVE TotalOf(_, _)
TotalOf(group, field) ==
    IF group = << >> THEN 0 ELSE Head(group)[field] + TotalOf(Tail(group), field)

\* x is the largest value of the field among the members of a group.
IsLargest(x, group, field) ==
    /\ \E n \in 1..Len(group) : group[n][field] = x
    /\ \A n \in 1..Len(group) : group[n][field] <= x

\* A panel that no bed can hold within its limits.
Oversize(pn) == pn.Depth > bed_width \/ pn.Weight > bed_weight_limit

\* An existing bed would admit the panel (the rule of the specification).
FitsBed(bed, pn) ==
    /\ TotalOf(bed, "Depth") + pn.Depth <= bed_width
    /\ TotalOf(bed, "Weight") + pn.Weight <= bed_weight_limit

FitsTruck(truck, s) ==
    /\ TotalOf(truck, "Length") + s.Length <= truck_max_length
    /\ TotalOf(truck, "Weight") + s.Weight <= truck_weight_limit

\* The result of placing item by first fit: into the lowest-indexed group
\* that admits it, else alone in a new group after all others.
FirstFitResult(groups, item, Fits(_, _)) ==
    LET admitting == { g \in 1..Len(groups) : Fits(groups[g], item) }
    IN  IF admitting = {}
        THEN Append(groups, <<item>>)
        ELSE LET g == CHOOSE g \in admitting : \A h \in admitting : g <= h
             IN  [groups EXCEPT ![g] = groups[g] \o <<item>>]

----------------------------------------------------------------------------
(* C1: after every placement step of the bed pass, every bed has a Depth    *)
(* sum of at most bed_width or exactly one member, and a Weight sum of at   *)
(* most bed_weight_limit or exactly one member.                             *)
BedCapacityOrLone ==
    \A b \in 1..Len(beds) :
        /\ TotalOf(beds[b], "Depth") <= bed_width \/ Len(beds[b]) = 1
        /\ TotalOf(beds[b], "Weight") <= bed_weight_limit \/ Len(beds[b]) = 1

\* The bed pass is under way, one bed holds two panels and another holds a
\* lone panel wider than a bed.
BedCapacityWitness ==
    /\ pc = "pack_beds"
    /\ i = Len(panels) + 1
    /\ \E b \in 1..Len(beds) : Len(beds[b]) = 2
    /\ \E b \in 1..Len(beds) :
          Len(beds[b]) = 1 /\ TotalOf(beds[b], "Depth") > bed_width

(* C2: every truck has a Length sum of at most truck_max_length or exactly  *)
(* one bed, and a Weight sum of at most truck_weight_limit or exactly one   *)
(* bed; a bed's Length is the largest Width and its Weight the total Weight *)
(* of its panels.                                                           *)
TruckCapacityOrLone ==
    /\ \A k \in 1..Len(trucks) :
          /\ TotalOf(trucks[k], "Length") <= truck_max_length \/ Len(trucks[k]) = 1
          /\ TotalOf(trucks[k], "Weight") <= truck_weight_limit \/ Len(trucks[k]) = 1
    /\ \A b \in 1..Len(bed_summaries) :
          /\ IsLargest(bed_summaries[b].Length, beds[b], "Width")
          /\ bed_summaries[b].Weight = TotalOf(beds[b], "Weight")

\* The function has returned a truck of two beds and a truck whose only bed
\* is heavier than a truck may carry.
TruckCapacityWitness ==
    /\ pc = "done"
    /\ \E k \in 1..Len(trucks) : Len(trucks[k]) = 2
    /\ \E k \in 1..Len(trucks) :
          Len(trucks[k]) = 1 /\ trucks[k][1].Weight > truck_weight_limit

(* C3: conservation.  The panels processed so far are, as a multiset, the   *)
(* members of the beds; once the beds are summarised the 'Num Panels'       *)
(* values sum to the number of input panels; the summaries processed so far *)
(* are, as a multiset, the members of the trucks, and on return the truck   *)
(* sizes sum to the number of bed summaries.                                *)
Conservation ==
    LET packed  == Flatten(beds)
        taken   == SubSeq(panels, 1, i - 1)
        loaded  == Flatten(trucks)
        offered == SubSeq(bed_summaries, 1, t - 1)
    IN  /\ Len(packed) = i - 1
        /\ \A n \in 1..Len(panels) : Count(panels[n], packed) = Count(panels[n], taken)
        /\ \A n \in 1..Len(packed) : Count(packed[n], packed) = Count(packed[n], taken)
        /\ pc # "pack_beds" => i = Len(panels) + 1
        /\ pc \in {"pack_trucks", "done"} =>
              TotalOf(bed_summaries, "Num_Panels") = Len(panels)
        /\ Len(loaded) = t - 1
        /\ \A n \in 1..Len(bed_summaries) :
              Count(bed_summaries[n], loaded) = Count(bed_summaries[n], offered)
        /\ \A n \in 1..Len(loaded) : Count(loaded[n], loaded) = Count(loaded[n], offered)
        /\ pc = "done" =>
              Len(loaded) = Len(bed_summaries)

\* The function has returned for an input that holds the same panel twice,
\* with a bed of two panels and a truck of two beds.
ConservationWitness ==
    /\ pc = "done"
    /\ Len(panels) = 3
    /\ \E m, n \in 1..Len(panels) : m < n /\ panels[m] = panels[n]
    /\ \E b \in 1..Len(beds) : Len(beds[b]) = 2
    /\ \E k \in 1..Len(trucks) : Len(trucks[k]) = 2

\* One step of either pass, as the first-fit rule has it.
FirstFitStep ==
    /\ (pc = "pack_beds" /\ i <= Len(panels)) =>
          /\ i' = i + 1
          /\ beds' = FirstFitResult(beds, panels[i], FitsBed)
    /\ (pc = "pack_trucks" /\ t <= Len(bed_summaries)) =>
          /\ t' = t + 1
          /\ trucks' = FirstFitResult(trucks, bed_summaries[t], FitsTruck)

(* C4: first fit.  Each step of the bed pass takes the next panel in input  *)
(* order and appends it to the lowest-indexed bed whose Depth sum plus the  *)
(* panel's Depth is at most bed_width and whose Weight sum plus the panel's *)
(* Weight is at most bed_weight_limit, or, when no bed admits it, to a new  *)
(* bed after all others; the truck pass does the same with bed summaries,   *)
(* Length / truck_max_length and Weight / truck_weight_limit.               *)
FirstFit == [][FirstFitStep]_vars

\* The third panel was admitted by both open beds and went to the first.
FirstFitWitness ==
    /\ pc = "pack_beds"
    /\ i = 4
    /\ beds = << <<panels[1], panels[3]>>, <<panels[2]>> >>
    /\ FitsBed(<<panels[2]>>, panels[3])

\* The same in the truck pass: the third bed was admitted by both open
\* trucks and went to the first.
FirstFitTruckWitness ==
    /\ pc = "pack_trucks"
    /\ t = 4
    /\ trucks = << <<bed_summaries[1], bed_summaries[3]>>, <<bed_summaries[2]>> >>
    /\ FitsTruck(<<bed_summaries[2]>>, bed_summaries[3])

(* C5: an oversize panel (Depth above bed_width or Weight above             *)
(* bed_weight_limit) never shares a bed; on return each occurrence has a    *)
(* bed of its own whose summary has Num Panels 1, the panel's Weight and    *)
(* the panel's Width as Length; and no bed is ever empty, so that max() of  *)
(* lines 183-184 cannot raise.                                              *)
OversizeAlone ==
    /\ \A b \in 1..Len(beds) : \A m \in 1..Len(beds[b]) :
          Oversize(beds[b][m]) => Len(beds[b]) = 1
    /\ pc = "done" =>
          \A n \in 1..Len(panels) :
              Oversize(panels[n]) =>
                  /\ Count(<<panels[n]>>, beds) = Count(panels[n], panels)
                  /\ \A b \in 1..Len(beds) :
                        beds[b] = <<panels[n]>> =>
                            /\ bed_summaries[b].Num_Panels = 1
                            /\ bed_summaries[b].Weight = panels[n].Weight
                            /\ bed_summaries[b].Length = panels[n].Width
    /\ \A b \in 1..Len(beds) : beds[b] # << >>

\* The function has returned for an input whose second panel is oversize,
\* between two panels that share the first bed.
OversizeWitness ==
    /\ pc = "done"
    /\ Len(panels) = 3
    /\ Oversize(panels[2])
    /\ beds = << <<panels[1], panels[3]>>, <<panels[2]>> >>
    /\ bed_summaries[2].Num_Panels = 1

(* C6, as claimed: every bed, without exception, has a Depth sum of at most *)
(* bed_width and a Weight sum of at most bed_weight_limit.                  *)
BedCapacityStrict ==
    \A b \in 1..Len(beds) :
        /\ TotalOf(beds[b], "Depth") <= bed_width
        /\ TotalOf(beds[b], "Weight") <= bed_weight_limit

(* C6, amended: every bed has a Depth sum of at most bed_width and a Weight *)
(* sum of at most bed_weight_limit, unless it is the bed of a single panel  *)
(* that by itself exceeds bed_width or bed_weight_limit.                    *)
BedCapacityUnlessOversize ==
    \A b \in 1..Len(beds) :
        \/ Len(beds[b]) = 1 /\ Oversize(beds[b][1])
        \/ /\ TotalOf(beds[b], "Depth") <= bed_width
           /\ TotalOf(beds[b], "Weight") <= bed_weight_limit

\* The function has returned a bed of two panels and the bed of a single
\* panel heavier than bed_weight_limit.
BedCapacityUnlessOversizeWitness ==
    /\ pc = "done"
    /\ \E b \in 1..Len(beds) : Len(beds[b]) = 2
    /\ \E b \in 1..Len(beds) :
          Len(beds[b]) = 1 /\ beds[b][1].Weight > bed_weight_limit

\* A label that line 187-189 keeps as it is: a str without surrounding
\* whitespace that is not blank and is no spelling of "nan" or "none".
PlainLabel(tp) ==
    /\ tp.isStr
    /\ tp.chars # << >>
    /\ Head(tp.chars) \notin Whitespace
    /\ tp.chars[Len(tp.chars)] \notin Whitespace
    /\ Lower(tp.chars) \notin { NanStr, NoneStr }

\* A label that line 189 drops: no str, or blank, "nan" or "none" once
\* stripped and lower-cased.
DroppedLabel(tp) ==
    \/ ~tp.isStr
    \/ \A n \in 1..Len(tp.chars) : tp.chars[n] \in Whitespace
    \/ Lower(Strip(tp.chars)) \in { NanStr, NoneStr }

\* The positions of a bed whose label is not dropped, in order.
RECURSIVE KeptPositions(_, _)
KeptPositions(bed, m) ==
    IF m > Len(bed) THEN << >>
    ELSE IF DroppedLabel(bed[m].Type) THEN KeptPositions(bed, m + 1)
    ELSE <<m>> \o KeptPositions(bed, m + 1)

(* C7, as claimed: for string labels, the 'Panel Types' list of every bed   *)
(* summary holds exactly the Type labels of the bed's members, one entry    *)
(* per member, so that its length is 'Num Panels'.                          *)
PanelTypesAreAllLabels ==
    \A b \in 1..Len(bed_summaries) :
        (\A m \in 1..Len(beds[b]) : beds[b][m].Type.isStr) =>
            /\ Len(bed_summaries[b].Panel_Types) = bed_summaries[b].Num_Panels
            /\ \A m \in 1..Len(beds[b]) :
                  Count(beds[b][m].Type.chars, bed_summaries[b].Panel_Types)
                      = Count(beds[b][m].Type, Field(beds[b], "Type"))

(* C7, amended: the 'Panel Types' list of every bed summary holds, in       *)
(* member order, the whitespace-stripped Type label of each member whose    *)
(* label is a string that, stripped and lower-cased, is not empty, "nan" or *)
(* "none"; the other members have no entry, so its length is at most        *)
(* 'Num Panels', and it is exactly the members' labels when every label is  *)
(* a non-blank string without surrounding whitespace other than a spelling  *)
(* of "nan" or "none".                                                      *)
PanelTypesAreKeptLabels ==
    \A b \in 1..Len(bed_summaries) :
        LET listed == bed_summaries[b].Panel_Types
            kept   == KeptPositions(beds[b], 1)
        IN  /\ Len(listed) = Len(kept)
            /\ Len(listed) <= bed_summaries[b].Num_Panels
            /\ \A n \in 1..Len(kept) :
                  /\ listed[n] = Strip(beds[b][kept[n]].Type.chars)
                  /\ PlainLabel(Str(listed[n]))
            /\ (\A m \in 1..Len(beds[b]) : PlainLabel(beds[b][m].Type)) =>
                  listed = [m \in 1..Len(beds[b]) |-> beds[b][m].Type.chars]

\* The function has returned a bed of three panels: one label is listed as
\* it is, one is listed without its surrounding blanks, one is dropped.
PanelTypesWitness ==
    /\ pc = "done"
    /\ \E b \in 1..Len(beds) :
          /\ Len(beds[b]) = 3
          /\ Len(bed_summaries[b].Panel_Types) = 2
          /\ PlainLabel(beds[b][1].Type)
          /\ beds[b][2].Type.isStr /\ DroppedLabel(beds[b][2].Type)
          /\ ~PlainLabel(beds[b][3].Type) /\ ~DroppedLabel(beds[b][3].Type)

(* C8: order sensitivity.  With bed_width 2400, panels of Depth 1300, 1300, *)
(* 1100, 1100 in this order come out on two beds, and the same panels in    *)
(* the order 1100, 1100, 1300, 1300 on three.                               *)
OrderChangesBedCount ==
    pc = "done" =>
        /\ Field(panels, "Depth") = <<1300, 1300, 1100, 1100>> => Len(bed_summaries) = 2
        /\ Field(panels, "Depth") = <<1100, 1100, 1300, 1300>> => Len(bed_summaries) = 3

\* The function has returned three beds for the order 1100, 1100, 1300,
\* 1300 of panels that fit on two.
OrderWitness ==
    /\ pc = "done"
    /\ Field(panels, "Depth") = <<1100, 1100, 1300, 1300>>
    /\ Len(bed_summaries) = 3
    /\ Len(beds[1]) = 2

(* C9: there is one summary per bed, in the order the beds were opened,     *)
(* with Length the largest member Width, Height the largest member Height,  *)
(* Width the bed_width argument, Weight the total member Weight and         *)
(* Num Panels the number of members; and the trucks hold these summaries.   *)
SummariesDerived ==
    /\ Len(bed_summaries) = j - 1
    /\ pc \in {"pack_trucks", "done"} => Len(bed_summaries) = Len(beds)
    /\ \A b \in 1..Len(bed_summaries) :
          /\ IsLargest(bed_summaries[b].Length, beds[b], "Width")
          /\ IsLargest(bed_summaries[b].Height, beds[b], "Height")
          /\ bed_summaries[b].Width = bed_width
          /\ bed_summaries[b].Weight = TotalOf(beds[b], "Weight")
          /\ bed_summaries[b].Num_Panels = Len(beds[b])
    /\ \A k \in 1..Len(trucks) : \A m \in 1..Len(trucks[k]) :
          \E b \in 1..(t - 1) : trucks[k][m] = bed_summaries[b]

\* The function has returned the summary of a bed of two panels of which
\* one is the widest and the other the highest.
SummariesWitness ==
    /\ pc = "done"
    /\ \E b \in 1..Len(beds) :
          /\ Len(beds[b]) = 2
          /\ beds[b][1].Width > beds[b][2].Width
          /\ beds[b][1].Height < beds[b][2].Height
          /\ beds[b][1].Weight > 0 /\ beds[b][2].Weight = 0
          /\ bed_summaries[b].Length = beds[b][1].Width
          /\ bed_summaries[b].Height = beds[b][2].Height

(* C10: separation.  Once the bed pass is over, for any two beds b < c the  *)
(* panel that opened bed c does not fit into bed b: with it the Depth sum   *)
(* of bed b exceeds bed_width or its Weight sum exceeds bed_weight_limit.   *)
OpenersSeparated ==
    pc # "pack_beds" =>
        \A b, c \in 1..Len(beds) :
            b < c =>
                \/ TotalOf(beds[b], "Depth") + beds[c][1].Depth > bed_width
                \/ TotalOf(beds[b], "Weight") + beds[c][1].Weight > bed_weight_limit

\* The function has returned three beds, the last opened by a panel that
\* the first bed had no room for although a bed in between was oversize.
SeparationWitness ==
    /\ pc = "done"
    /\ Len(beds) = 3
    /\ Oversize(beds[2][1])
    /\ ~Oversize(beds[1][1]) /\ ~Oversize(beds[3][1])

=============================================================================
